---------------------------- MODULE Spec2Model ----------------------------
(***************************************************************************)
(* LfpPictureFile (lfp_reader/lfp_picture.py): the picture reader of an    *)
(* LFP container.  The reader holds the container's chunk table and        *)
(* metadata tree, the Frame / RefocusStack / ParallaxStack that process()  *)
(* builds from them, and the cache of decoded images.                      *)
(*                                                                         *)
(* Conventions of the model                                                *)
(*  - A JSON object is a function from strings (a record); a missing key   *)
(*    is a key outside its DOMAIN.  A JSON array is a sequence.            *)
(*  - A Python dict keyed by the ids 0..n-1 is a function on 0..n-1; such  *)
(*    a dict is iterated in ascending id order.                            *)
(*  - None is the empty sequence and a present value v is <<v>>.           *)
(*  - Lambdas (focus depths) are counted in quarters: 5 stands for 1.25.   *)
(*    Quarters are exact in binary32 and binary64, so the arithmetic of    *)
(*    the code on them is exact.                                           *)
(*  - A fraction x_f of the refocus lookup is counted in quarters and one   *)
(*    of the parallax lookup in halves, exact in binary64 as well.         *)
(*  - An exception is the name of its class in the field err; "" is a      *)
(*    normal return.                                                       *)
(***************************************************************************)
EXTENDS Integers, Sequences, FiniteSets, TLC

VARIABLES
    meta,             \* self.meta.content: the parsed metadata tree
    chunks,           \* self.chunks: reference key -> chunk
    coord_scale,      \* viewpoint coordinates are the integers of the model
                      \* times 2^coord_scale
    _frame,           \* self._frame
    _refocus_stack,   \* self._refocus_stack
    _parallax_stack,  \* self._parallax_stack
    _pil_cache,       \* self._pil_cache: group -> (image id -> PIL image)
    pil_opened,       \* encoded picture -> number of PIL images opened on it
    decoded,          \* cache key -> number of times the key was filled
    exported,         \* files written by the export operations
    result            \* outcome of the last operation called on the reader

vars == <<meta, chunks, coord_scale, _frame, _refocus_stack, _parallax_stack,
          _pil_cache, pil_opened, decoded, exported, result>>

None == <<>>

Some(v) == <<v>>

Has(d, k) == k \in DOMAIN d

HasAll(d, ks) == ks \subseteq DOMAIN d

\* dict without key k
Drop(d, k) == [x \in (DOMAIN d) \ {k} |-> d[x]]

Min2(a, b) == IF a < b THEN a ELSE b

Max2(a, b) == IF a > b THEN a ELSE b

Abs(a) == IF a < 0 THEN -a ELSE a

(***************************************************************************)
(* Optional modules of the installation.                                   *)
(***************************************************************************)
\* import Image as PIL succeeded
PIL_present == TRUE

\* import gst_h264_splitter succeeded
gst_h264_splitter_present == TRUE

_check_pil_module == IF PIL_present THEN "" ELSE "RuntimeError"

_check_gst_h264_splitter_module ==
    IF gst_h264_splitter_present THEN "" ELSE "RuntimeError"

(***************************************************************************)
(* Data classes                                                            *)
(***************************************************************************)
Frame(metadata, image, private_metadata) ==
    [metadata |-> metadata, image |-> image,
     private_metadata |-> private_metadata]

RefocusStack(refocus_images, depth_lut, default_lambda, default_width, default_height) ==
    [refocus_images |-> refocus_images, depth_lut |-> depth_lut,
     default_lambda |-> default_lambda, default_width |-> default_width,
     default_height |-> default_height]

RefocusImage(id, lambda_, width, height, representation, chunk, data) ==
    [id |-> id, lambda_ |-> lambda_, width |-> width, height |-> height,
     representation |-> representation, chunk |-> chunk, data |-> data]

ParallaxStack(parallax_images, default_width, default_height, viewpoint_width, viewpoint_height) ==
    [parallax_images |-> parallax_images, default_width |-> default_width,
     default_height |-> default_height, viewpoint_width |-> viewpoint_width,
     viewpoint_height |-> viewpoint_height]

ParallaxImage(id, coord, width, height, representation, chunk, data) ==
    [id |-> id, coord |-> coord, width |-> width, height |-> height,
     representation |-> representation, chunk |-> chunk, data |-> data]

DepthLut(width, height, representation, table, chunk) ==
    [width |-> width, height |-> height, representation |-> representation,
     table |-> table, chunk |-> chunk]

Coord(x, y) == [x |-> x, y |-> y]

(***************************************************************************)
(* Capabilities outside lfp_picture.py                                     *)
(***************************************************************************)
\* gst_h264_splitter.H246Splitter(h264_data, image_format).get_images():
\* the frames of the combined stream, in id order.
get_images(h264_data) == h264_data.frames

\* unpack("f", depth_data[k*4 : (k+1)*4])[0]: cell k (from 0) of a buffer of
\* 4-byte floats; struct.error when the slice is shorter than 4 bytes.
unpack_f(depth_data, k) == depth_data.cells[k + 1]

\* len(depth_data) in 4-byte floats
CellCount(depth_data) == Len(depth_data.cells)

(***************************************************************************)
(* process(): the raw frame, lines 116-126                                 *)
(***************************************************************************)
\* ProcessFrame with `or` for `and`: one reference in the table is enough,
\* the buffers of the others are empty
ProcessFrameAnyRef(m, ch, old) ==
    LET fail(e) == [err |-> e, frame |-> old]
        buf(r)  == IF r \in DOMAIN ch THEN ch[r] ELSE [data |-> [kind |-> "raw", pic |-> ""]]
    IN
    IF ~Has(m, "picture") THEN fail("KeyError")
    ELSE IF ~Has(m.picture, "frameArray") THEN fail("KeyError")
    ELSE IF Len(m.picture.frameArray) = 0 THEN fail("IndexError")
    ELSE IF ~Has(m.picture.frameArray[1], "frame") THEN fail("KeyError")
    ELSE LET frame_data == m.picture.frameArray[1].frame IN
         IF ~HasAll(frame_data, {"metadataRef", "imageRef", "privateMetadataRef"})
         THEN fail("KeyError")
         ELSE IF {frame_data.metadataRef, frame_data.imageRef,
                  frame_data.privateMetadataRef} \cap DOMAIN ch = {}
         THEN [err |-> "", frame |-> old]
         ELSE [err |-> "",
               frame |-> Some(Frame(buf(frame_data.metadataRef), buf(frame_data.imageRef),
                                    buf(frame_data.privateMetadataRef)))]

ProcessFrame(m, ch, old) ==
    LET fail(e) == [err |-> e, frame |-> old]
        ok(f)   == [err |-> "", frame |-> f]
    IN
    IF ~Has(m, "picture") THEN fail("KeyError")
    ELSE IF ~Has(m.picture, "frameArray") THEN fail("KeyError")
    ELSE IF Len(m.picture.frameArray) = 0 THEN fail("IndexError")
    ELSE IF ~Has(m.picture.frameArray[1], "frame") THEN fail("KeyError")
    ELSE LET frame_data == m.picture.frameArray[1].frame IN
         \* `and` stops at the first reference that is not in the table
         IF ~Has(frame_data, "metadataRef") THEN fail("KeyError")
         ELSE IF frame_data.metadataRef \notin DOMAIN ch THEN ok(old)
         ELSE IF ~Has(frame_data, "imageRef") THEN fail("KeyError")
         ELSE IF frame_data.imageRef \notin DOMAIN ch THEN ok(old)
         ELSE IF ~Has(frame_data, "privateMetadataRef") THEN fail("KeyError")
         ELSE IF frame_data.privateMetadataRef \notin DOMAIN ch THEN ok(old)
         ELSE ok(Some(Frame(ch[frame_data.metadataRef],
                            ch[frame_data.imageRef],
                            ch[frame_data.privateMetadataRef])))

(***************************************************************************)
(* process(): a refocusStack entry, lines 134-194                          *)
(***************************************************************************)
\* lines 137-145: the JPEG-based refocus stack
RefocusImagesOfImageArray(imageArray, ch) ==
    LET bad(i) == \/ ~HasAll(imageArray[i], {"lambda", "width", "height", "representation", "imageRef"})
                  \/ imageArray[i].imageRef \notin DOMAIN ch
    IN
    IF \E i \in 1..Len(imageArray) : bad(i)
    THEN [err |-> "KeyError", images |-> <<>>]
    ELSE [err |-> "",
          images |-> [id \in 0..(Len(imageArray) - 1) |->
              LET rimg == imageArray[id + 1] IN
              RefocusImage(id, rimg["lambda"], rimg.width, rimg.height,
                           rimg.representation, Some(ch[rimg.imageRef]), None)]]

\* the indices of metadataArray, in order, up to the first one whose
\* construction raises: a missing key before images_data[id]
FirstBad(metadataArray, keys, n_images) ==
    LET badIdx == {i \in 1..Len(metadataArray) :
                     ~HasAll(metadataArray[i], keys) \/ i > n_images}
    IN IF badIdx = {} THEN 0
       ELSE CHOOSE i \in badIdx : \A j \in badIdx : i <= j

\* lines 148-167: the H264-encoded refocus stack
RefocusImagesOfBlock(block_of_images, ch) ==
    LET fail(e) == [err |-> e, images |-> <<>>] IN
    IF ~Has(block_of_images, "representation") THEN fail("KeyError")
    ELSE IF block_of_images.representation # "h264" THEN fail("KeyError")
    ELSE IF _check_gst_h264_splitter_module # "" THEN fail(_check_gst_h264_splitter_module)
    ELSE IF ~Has(block_of_images, "blockOfImagesRef") THEN fail("KeyError")
    ELSE IF block_of_images.blockOfImagesRef \notin DOMAIN ch THEN fail("KeyError")
    ELSE IF ~Has(block_of_images, "metadataArray") THEN fail("KeyError")
    ELSE LET images_data == get_images(ch[block_of_images.blockOfImagesRef].data)
             metadataArray == block_of_images.metadataArray
             keys == {"lambda", "width", "height"}
             b == FirstBad(metadataArray, keys, Len(images_data))
         IN
         IF b # 0
         THEN IF ~HasAll(metadataArray[b], keys) THEN fail("KeyError")
                                                ELSE fail("IndexError")
         ELSE [err |-> "",
               images |-> [id \in 0..(Len(metadataArray) - 1) |->
                   LET rimg == metadataArray[id + 1] IN
                   RefocusImage(id, rimg["lambda"], rimg.width, rimg.height,
                                "jpeg", None, Some(images_data[id + 1]))]]

\* lines 135-170
RefocusImagesOf(accel_content, ch) ==
    IF Has(accel_content, "imageArray")
    THEN RefocusImagesOfImageArray(accel_content.imageArray, ch)
    ELSE IF Has(accel_content, "blockOfImages")
    THEN RefocusImagesOfBlock(accel_content.blockOfImages, ch)
    ELSE [err |-> "KeyError", images |-> <<>>]

\* DepthTable filled column after column: table[i][j] from (i*depth_height + j)*4
DepthTableByColumns(depth_width, depth_height, depth_data) ==
    [i \in 0..(depth_width - 1) |->
        [j \in 0..(depth_height - 1) |->
            unpack_f(depth_data, i * depth_height + j)]]

\* lines 176-179: table[i][j] is the float at (j*depth_width + i)*4,
\* for i over the width (outer list) and j over the height (inner list)
DepthTable(depth_width, depth_height, depth_data) ==
    [i \in 0..(depth_width - 1) |->
        [j \in 0..(depth_height - 1) |->
            unpack_f(depth_data, j * depth_width + i)]]

\* lines 173-186
DepthLutOf(accel_content, ch) ==
    LET fail(e) == [err |-> e, lut |-> <<>>] IN
    IF ~Has(accel_content, "depthLut") THEN fail("KeyError")
    ELSE LET dl == accel_content.depthLut IN
    IF ~HasAll(dl, {"width", "height", "imageRef"}) THEN fail("KeyError")
    ELSE IF dl.imageRef \notin DOMAIN ch THEN fail("KeyError")
    ELSE LET depth_data == ch[dl.imageRef].data IN
    IF dl.width * dl.height > CellCount(depth_data) THEN fail("struct.error")
    ELSE IF ~Has(dl, "representation") THEN fail("KeyError")
    ELSE [err |-> "",
          lut |-> DepthLut(dl.width, dl.height, dl.representation,
                           DepthTable(dl.width, dl.height, depth_data),
                           ch[dl.imageRef])]

\* accel_content['displayParameters']['displayDimensions']['value'] and its
\* width and height are all there (lines 188-192, 218-221)
HasDefaultDimensions(accel_content) ==
    /\ Has(accel_content, "displayParameters")
    /\ Has(accel_content.displayParameters, "displayDimensions")
    /\ Has(accel_content.displayParameters.displayDimensions, "value")
    /\ HasAll(accel_content.displayParameters.displayDimensions.value, {"width", "height"})

DefaultDimensions(accel_content) ==
    accel_content.displayParameters.displayDimensions.value

\* ps: the fields and locals of the running process() call
ProcessRefocusStack(accel_content, ch, ps) ==
    LET imgs == RefocusImagesOf(accel_content, ch) IN
    IF imgs.err # "" THEN [ps EXCEPT !.err = imgs.err]
    ELSE LET dl == DepthLutOf(accel_content, ch) IN
    IF dl.err # "" THEN [ps EXCEPT !.err = dl.err]
    ELSE IF ~HasDefaultDimensions(accel_content) \/ ~Has(accel_content, "defaultLambda")
    THEN [ps EXCEPT !.err = "KeyError"]
    ELSE [ps EXCEPT !.refocus_stack =
            Some(RefocusStack(imgs.images, dl.lut, accel_content.defaultLambda,
                              DefaultDimensions(accel_content).width,
                              DefaultDimensions(accel_content).height))]

(***************************************************************************)
(* process(): an edofParallax entry, lines 196-224                         *)
(***************************************************************************)
\* the error of building ParallaxImage number b (from 1) of the
\* comprehension at lines 206-214, its arguments evaluated left to right
ParallaxImageError(pimg, b, n_images) ==
    IF ~Has(pimg, "coord") THEN "KeyError"
    ELSE IF DOMAIN pimg.coord # {"x", "y"} THEN "TypeError"
    ELSE IF ~HasAll(pimg, {"width", "height"}) THEN "KeyError"
    ELSE IF b > n_images THEN "IndexError"
    ELSE ""

\* lines 199-214: the H264-encoded parallax stack
ParallaxImagesOfBlock(block_of_images, ch) ==
    LET fail(e) == [err |-> e, images |-> <<>>] IN
    IF _check_gst_h264_splitter_module # "" THEN fail(_check_gst_h264_splitter_module)
    ELSE IF ~Has(block_of_images, "blockOfImagesRef") THEN fail("KeyError")
    ELSE IF block_of_images.blockOfImagesRef \notin DOMAIN ch THEN fail("KeyError")
    ELSE IF ~Has(block_of_images, "metadataArray") THEN fail("KeyError")
    ELSE LET images_data == get_images(ch[block_of_images.blockOfImagesRef].data)
             metadataArray == block_of_images.metadataArray
             badIdx == {i \in 1..Len(metadataArray) :
                          ParallaxImageError(metadataArray[i], i, Len(images_data)) # ""}
         IN
         IF badIdx # {}
         THEN LET b == CHOOSE i \in badIdx : \A j \in badIdx : i <= j
              IN fail(ParallaxImageError(metadataArray[b], b, Len(images_data)))
         ELSE [err |-> "",
               images |-> [id \in 0..(Len(metadataArray) - 1) |->
                   LET pimg == metadataArray[id + 1] IN
                   ParallaxImage(id, Coord(pimg.coord.x, pimg.coord.y),
                                 pimg.width, pimg.height,
                                 "jpeg", None, Some(images_data[id + 1]))]]

\* max(parallax_images, key=lambda id: parallax_images[id].coord.x): the
\* largest x of the images
MaxCoordX(parallax_images) ==
    CHOOSE v \in {parallax_images[id].coord.x : id \in DOMAIN parallax_images} :
        \A id \in DOMAIN parallax_images : parallax_images[id].coord.x <= v

MaxCoordY(parallax_images) ==
    CHOOSE v \in {parallax_images[id].coord.y : id \in DOMAIN parallax_images} :
        \A id \in DOMAIN parallax_images : parallax_images[id].coord.y <= v

\* lines 216-224, with the local parallax_images as the loop left it
ParallaxStackOfLocal(accel_content, ps) ==
    IF ps.parallax_images = None THEN [ps EXCEPT !.err = "UnboundLocalError"]
    ELSE LET parallax_images == ps.parallax_images[1] IN
    IF DOMAIN parallax_images = {} THEN [ps EXCEPT !.err = "ValueError"]
    ELSE IF ~HasDefaultDimensions(accel_content) THEN [ps EXCEPT !.err = "KeyError"]
    ELSE [ps EXCEPT !.parallax_stack =
            Some(ParallaxStack(parallax_images,
                               DefaultDimensions(accel_content).width,
                               DefaultDimensions(accel_content).height,
                               2 * MaxCoordX(parallax_images),
                               2 * MaxCoordY(parallax_images)))]

ProcessEdofParallax(accel_content, ch, ps) ==
    IF ~Has(accel_content, "blockOfImages") THEN [ps EXCEPT !.err = "KeyError"]
    ELSE LET block_of_images == accel_content.blockOfImages IN
    IF ~Has(block_of_images, "representation") THEN [ps EXCEPT !.err = "KeyError"]
    ELSE IF block_of_images.representation = "h264"
    THEN LET imgs == ParallaxImagesOfBlock(block_of_images, ch) IN
         IF imgs.err # "" THEN [ps EXCEPT !.err = imgs.err]
         ELSE ParallaxStackOfLocal(accel_content,
                                   [ps EXCEPT !.parallax_images = Some(imgs.images)])
    \* no else branch: the local keeps what an earlier entry gave it
    ELSE ParallaxStackOfLocal(accel_content, ps)

(***************************************************************************)
(* process(): the loop over accelerationArray, lines 129-229               *)
(***************************************************************************)
ProcessAccel(accel_data, ch, ps) ==
    IF ~HasAll(accel_data, {"type", "vendorContent"}) THEN [ps EXCEPT !.err = "KeyError"]
    ELSE IF accel_data.type = "com.lytro.acceleration.refocusStack"
    THEN ProcessRefocusStack(accel_data.vendorContent, ch, ps)
    ELSE IF accel_data.type = "com.lytro.acceleration.edofParallax"
    THEN ProcessEdofParallax(accel_data.vendorContent, ch, ps)
    \* depthMap: pass; any other type: no branch
    ELSE ps

RECURSIVE ProcessAccelFrom(_, _, _, _)
ProcessAccelFrom(accelerationArray, k, ch, ps) ==
    IF k > Len(accelerationArray) \/ ps.err # "" THEN ps
    ELSE ProcessAccelFrom(accelerationArray, k + 1, ch,
                          ProcessAccel(accelerationArray[k], ch, ps))

\* process() keeping nothing of a call that fails: the fields are as they
\* were before the call
processAllOrNothing(m, ch, frame, refocus_stack, parallax_stack) ==
    LET f   == ProcessFrame(m, ch, frame)
        ps0 == [err |-> f.err, frame |-> f.frame, refocus_stack |-> refocus_stack,
                parallax_stack |-> parallax_stack, parallax_images |-> None]
        ps1 == IF f.err # "" THEN ps0
               ELSE IF ~Has(m.picture, "accelerationArray") THEN [ps0 EXCEPT !.err = "KeyError"]
               ELSE ProcessAccelFrom(m.picture.accelerationArray, 1, ch, ps0)
        ps2 == IF ps1.err = "" THEN ps1
               ELSE [ps1 EXCEPT !.frame = frame, !.refocus_stack = refocus_stack,
                                !.parallax_stack = parallax_stack]
    IN [ps2 EXCEPT !.err = IF @ = "KeyError" THEN "LfpPictureError" ELSE @]

\* process(), lines 114-232: the fields of the reader after the call and
\* the exception the call ends with
process(m, ch, frame, refocus_stack, parallax_stack) ==
    LET f   == ProcessFrame(m, ch, frame)
        ps0 == [err |-> f.err, frame |-> f.frame, refocus_stack |-> refocus_stack,
                parallax_stack |-> parallax_stack, parallax_images |-> None]
        ps1 == IF f.err # "" THEN ps0
               ELSE IF ~Has(m.picture, "accelerationArray") THEN [ps0 EXCEPT !.err = "KeyError"]
               ELSE ProcessAccelFrom(m.picture.accelerationArray, 1, ch, ps0)
    IN \* except KeyError: raise LfpPictureError
       [ps1 EXCEPT !.err = IF @ = "KeyError" THEN "LfpPictureError" ELSE @]

(***************************************************************************)
(* Accessors, lines 234-247                                                *)
(***************************************************************************)
get_frame(frame) ==
    IF frame = None THEN [err |-> "LfpPictureError", val |-> None]
    ELSE [err |-> "", val |-> frame]

get_refocus_stack(refocus_stack) ==
    IF refocus_stack = None THEN [err |-> "LfpPictureError", val |-> None]
    ELSE IF DOMAIN refocus_stack[1].refocus_images = {} THEN [err |-> "LfpPictureError", val |-> None]
    ELSE [err |-> "", val |-> refocus_stack]

get_parallax_stack(parallax_stack) ==
    IF parallax_stack = None THEN [err |-> "LfpPictureError", val |-> None]
    ELSE IF DOMAIN parallax_stack[1].parallax_images = {} THEN [err |-> "LfpPictureError", val |-> None]
    ELSE [err |-> "", val |-> parallax_stack]

(***************************************************************************)
(* Python list and number helpers                                          *)
(***************************************************************************)
\* list[k] for a list held as a function on 0..n-1: a negative k counts
\* from the end, anything outside -n..n-1 raises IndexError (None)
ListIndex(list, k) ==
    LET n == Cardinality(DOMAIN list) IN
    IF 0 <= k /\ k < n THEN Some(list[k])
    ELSE IF -n <= k /\ k < 0 THEN Some(list[k + n])
    ELSE None

\* int(math.floor(t)) of t = t4 / 4
FloorQuarters(t4) == t4 \div 4

RECURSIVE PadLeft(_, _)
PadLeft(str, width) ==
    IF Len(str) >= width THEN str ELSE PadLeft(" " \o str, width)

\* "%9f" % v for v = v4 / 4: six decimals, right-justified in 9 columns
Format9f(v4) ==
    LET a    == Abs(v4)
        frac == CASE a % 4 = 0 -> "00" [] a % 4 = 1 -> "25"
                  [] a % 4 = 2 -> "50" [] OTHER -> "75"
        body == ToString(a \div 4) \o "." \o frac \o "0000"
    IN PadLeft(IF v4 < 0 THEN "-" \o body ELSE body, 9)

(***************************************************************************)
(* Refocus lookup, lines 376-393                                           *)
(***************************************************************************)
\* ClosestImageId keeping the last minimal id instead of the first
ClosestImageIdLast(refocus_images, taget_lambda) ==
    LET key(id) == Abs(refocus_images[id].lambda_ - taget_lambda) IN
    CHOOSE id \in DOMAIN refocus_images :
        \A other \in DOMAIN refocus_images :
            \/ key(id) < key(other)
            \/ key(id) = key(other) /\ id >= other

\* min(refocus_images, key=|lambda_ - target|): the first id, in ascending
\* order, whose key is minimal
ClosestImageId(refocus_images, taget_lambda) ==
    LET key(id) == Abs(refocus_images[id].lambda_ - taget_lambda) IN
    CHOOSE id \in DOMAIN refocus_images :
        \A other \in DOMAIN refocus_images :
            \/ key(id) < key(other)
            \/ key(id) = key(other) /\ id <= other

\* ClampIndex without the lower clamp max(0, ...)
ClampIndexAbove(t4, size) == Min2(FloorQuarters(t4), size - 1)

\* line 388: max(0, min(int(math.floor(ti)), width-1))
ClampIndex(t4, size) == Max2(0, Min2(FloorQuarters(t4), size - 1))

\* find_closest_refocus_image_by_lut_idx(ti, tj) for ti = ti4/4, tj = tj4/4;
\* read: the indices table was subscripted with
find_closest_refocus_image_by_lut_idx(refocus_stack, ti4, tj4) ==
    LET got == get_refocus_stack(refocus_stack) IN
    IF got.err # "" THEN [err |-> got.err, val |-> None, read |-> None]
    ELSE LET rstk   == got.val[1]
             ti     == ClampIndex(ti4, rstk.depth_lut.width)
             tj     == ClampIndex(tj4, rstk.depth_lut.height)
             column == ListIndex(rstk.depth_lut.table, ti)
             cell   == IF column = None THEN None ELSE ListIndex(column[1], tj)
         IN
         IF cell = None
         THEN [err |-> "IndexError", val |-> None, read |-> Some(<<ti, tj>>)]
         ELSE [err |-> "",
               val |-> Some(rstk.refocus_images[ClosestImageId(rstk.refocus_images, cell[1])]),
               read |-> Some(<<ti, tj>>)]

\* find_closest_refocus_image(x_f, y_f) for x_f = xq/4, y_f = yq/4: the
\* products x_f * width, y_f * height are xq*width/4, yq*height/4
find_closest_refocus_image(refocus_stack, xq, yq) ==
    LET got == get_refocus_stack(refocus_stack) IN
    IF got.err # "" THEN [err |-> got.err, val |-> None, read |-> None]
    ELSE find_closest_refocus_image_by_lut_idx(refocus_stack,
             xq * got.val[1].depth_lut.width, yq * got.val[1].depth_lut.height)

(***************************************************************************)
(* Depth table as text, lines 293-300                                      *)
(***************************************************************************)
\* the text after the cells before (i, j) of the double loop, and the
\* exception that ends it
RECURSIVE DepthLutTxtFrom(_, _, _, _)
DepthLutTxtFrom(depth_lut, i, j, txt) ==
    IF i >= depth_lut.width THEN [err |-> "", val |-> Some(txt)]
    ELSE IF j >= depth_lut.height
    THEN DepthLutTxtFrom(depth_lut, i + 1, 0, txt \o "\r\n")
    ELSE LET column == ListIndex(depth_lut.table, j)
             cell   == IF column = None THEN None ELSE ListIndex(column[1], i)
         IN IF cell = None THEN [err |-> "IndexError", val |-> None]
            ELSE DepthLutTxtFrom(depth_lut, i, j + 1, txt \o Format9f(cell[1]) \o " ")

get_depth_lut_txt(refocus_stack) ==
    IF refocus_stack = None THEN [err |-> "AttributeError", val |-> None]
    ELSE DepthLutTxtFrom(refocus_stack[1].depth_lut, 0, 0, "")

(***************************************************************************)
(* Parallax lookup, lines 424-436                                          *)
(***************************************************************************)
\* d * 4^scale < sys.maxint for sys.maxint = 2^63 - 1 (a 64-bit build) and
\* an integer d below 2^31: d * 2^(2*scale) <= 2^63 - 2, that is
\* d < 2^(63 - 2*scale); every such d is below it when 63 - 2*scale > 30
LessThanMaxint(d, scale) ==
    IF 63 - 2 * scale > 30 THEN TRUE ELSE d < 2 ^ (63 - 2 * scale)

\* the loop of lines 431-435 from image id on; best is the closest_image so
\* far (None at first) and min_dist its distance (sys.maxint while best is
\* None)
RECURSIVE ClosestParallaxFrom(_, _, _, _, _, _)
ClosestParallaxFrom(parallax_images, id, vx, vy, scale, best) ==
    IF id \notin DOMAIN parallax_images THEN best
    ELSE LET pimg == parallax_images[id]
             euclidean_dist == (pimg.coord.x - vx) * (pimg.coord.x - vx)
                             + (pimg.coord.y - vy) * (pimg.coord.y - vy)
             closer == IF best = None THEN LessThanMaxint(euclidean_dist, scale)
                       ELSE euclidean_dist < best[1].dist
         IN ClosestParallaxFrom(parallax_images, id + 1, vx, vy, scale,
                IF closer THEN Some([image |-> pimg, dist |-> euclidean_dist])
                          ELSE best)

\* find_closest_parallax_image(x_f, y_f) for x_f = xh/2, y_f = yh/2:
\* (x_f - .5) * viewpoint_width is (xh - 1) * viewpoint_width / 2, and
\* viewpoint_width is twice a coordinate
find_closest_parallax_image(parallax_stack, xh, yh, scale) ==
    LET got == get_parallax_stack(parallax_stack) IN
    IF got.err # "" THEN [err |-> got.err, val |-> None]
    ELSE LET pstk == got.val[1]
             vx   == (xh - 1) * (pstk.viewpoint_width \div 2)
             vy   == (yh - 1) * (pstk.viewpoint_height \div 2)
             best == ClosestParallaxFrom(pstk.parallax_images, 0, vx, vy, scale, None)
         IN [err |-> "",
             val |-> IF best = None THEN None ELSE Some(best[1].image)]

(***************************************************************************)
(* Exporting, lines 266-276                                                *)
(***************************************************************************)
\* 'refocus_%02d' % id
RefocusImageName(id) ==
    IF id < 10 THEN "refocus_0" \o ToString(id) ELSE "refocus_" \o ToString(id)

\* get_export_path(name, ext) with export_write or export_data: the file
\* <name>.<ext> beside the source file now holds data
export_write(files, name, ext, data) ==
    [p \in DOMAIN files \cup {name \o "." \o ext} |->
        IF p = name \o "." \o ext THEN data ELSE files[p]]

\* the loop of lines 267-272 from image id on
RECURSIVE ExportRefocusImagesFrom(_, _, _)
ExportRefocusImagesFrom(refocus_images, id, files) ==
    IF id \notin DOMAIN refocus_images THEN files
    ELSE LET rimg == refocus_images[id] IN
         ExportRefocusImagesFrom(refocus_images, id + 1,
             export_write(files, RefocusImageName(id), rimg.representation,
                          IF rimg.chunk # None THEN rimg.chunk[1].data
                                               ELSE rimg.data[1]))

export_refocus_stack(refocus_stack, files) ==
    IF refocus_stack = None THEN [err |-> "AttributeError", files |-> files]
    ELSE LET rstk   == refocus_stack[1]
             files1 == ExportRefocusImagesFrom(rstk.refocus_images, 0, files)
             files2 == export_write(files1, "depth_lut", rstk.depth_lut.representation,
                                    rstk.depth_lut.chunk.data)
             txt    == get_depth_lut_txt(refocus_stack)
         IN IF txt.err # "" THEN [err |-> txt.err, files |-> files2]
            ELSE [err |-> "",
                  files |-> export_write(files2, "depth_lut", "txt", txt.val[1])]

\* export_frame(), lines 261-264
export_frame(frame, files) ==
    IF frame = None THEN [err |-> "AttributeError", files |-> files]
    ELSE LET files1 == export_write(files, "frame_metadata", "json", frame[1].metadata.data)
             files2 == export_write(files1, "frame", "raw", frame[1].image.data)
         IN [err |-> "",
             files |-> export_write(files2, "frame_private_metadata", "json",
                                    frame[1].private_metadata.data)]

\* 'parallax_%02d' % id
ParallaxImageName(id) ==
    IF id < 10 THEN "parallax_0" \o ToString(id) ELSE "parallax_" \o ToString(id)

\* the loop of lines 279-284 from image id on
RECURSIVE ExportParallaxImagesFrom(_, _, _)
ExportParallaxImagesFrom(parallax_images, id, files) ==
    IF id \notin DOMAIN parallax_images THEN files
    ELSE LET pimg == parallax_images[id] IN
         ExportParallaxImagesFrom(parallax_images, id + 1,
             export_write(files, ParallaxImageName(id), pimg.representation,
                          IF pimg.chunk # None THEN pimg.chunk[1].data
                                               ELSE pimg.data[1]))

\* export_parallax_stack(), lines 278-284
export_parallax_stack(parallax_stack, files) ==
    IF parallax_stack = None THEN [err |-> "AttributeError", files |-> files]
    ELSE [err |-> "",
          files |-> ExportParallaxImagesFrom(parallax_stack[1].parallax_images, 0, files)]

\* export(), lines 253-259: each structure that is there, in turn, up to
\* the first export that raises
export(frame, refocus_stack, parallax_stack, files) ==
    LET r1 == IF frame # None THEN export_frame(frame, files)
              ELSE [err |-> "", files |-> files]
        r2 == IF r1.err = "" /\ refocus_stack # None
              THEN export_refocus_stack(refocus_stack, r1.files) ELSE r1
        r3 == IF r2.err = "" /\ parallax_stack # None
              THEN export_parallax_stack(parallax_stack, r2.files) ELSE r2
    IN r3

(***************************************************************************)
(* Decoded images (the imaging library)                                    *)
(***************************************************************************)
\* PIL.open(StringIO(data)): a new image object, the n-th one opened on this
\* picture (what tells two objects apart), of the picture's pixel size
PIL_open(data, n) ==
    [oid |-> <<data.pic, n>>, size |-> <<data.w, data.h>>, pic |-> data.pic,
     pastes |-> <<>>]

\* the images opened so far on the picture of data
OpenCount(opened, data) ==
    IF data.pic \in DOMAIN opened THEN opened[data.pic] ELSE 0

\* image.crop(box)
crop(image, box) == [pic |-> image.pic, box |-> box]

\* canvas.paste(piece, box): the canvas keeps its size
paste(canvas, piece, box) ==
    [canvas EXCEPT !.pastes = Append(@, [box |-> box, pic |-> piece.pic])]

\* bool(data) of bytes or None: neither None nor the empty string
Truthy(data) == data # None /\ ToString(data[1]) # ToString("")

\* img.data if img.data else img.chunk.data: the chunk's data whenever
\* img.data is None or empty, AttributeError when there is no chunk then
ImageData(img) ==
    IF Truthy(img.data) THEN [err |-> "", data |-> img.data[1]]
    ELSE IF img.chunk = None THEN [err |-> "AttributeError", data |-> None]
    ELSE [err |-> "", data |-> img.chunk[1].data]

CacheKey(group, id) == group \o ":" \o id

Incr(counts, key) ==
    [k \in DOMAIN counts \cup {key} |->
        IF k \notin DOMAIN counts THEN 1
        ELSE IF k = key THEN counts[k] + 1 ELSE counts[k]]

PilGroups == {"refocus", "parallax", "all_focused"}

(***************************************************************************)
(* get_pil_image, lines 342-370, and _gen_pil_all_focused_image, lines     *)
(* 395-418.  st holds what the calls change: the cache, the number of      *)
(* images opened on each picture and the fills of each cache key.          *)
(***************************************************************************)
RECURSIVE get_pil_image(_, _, _, _, _)

\* lines 410-413
Box(width, height, depth_lut, i, j) ==
    << (width * i) \div depth_lut.width,
       (height * j) \div depth_lut.height,
       (width * (i + 1)) \div depth_lut.width,
       (height * (j + 1)) \div depth_lut.height >>

\* the double loop of lines 408-417 from its k-th cell on (i outer over the
\* width, j inner over the height)
RECURSIVE GenAllFocusedFrom(_, _, _, _, _)
GenAllFocusedFrom(refocus_stack, parallax_stack, k, canvas, st) ==
    LET rstk      == refocus_stack[1]
        depth_lut == rstk.depth_lut
        i         == k \div depth_lut.height
        j         == k % depth_lut.height
    IN
    IF k >= depth_lut.width * depth_lut.height
    THEN [err |-> "", msg |-> "", val |-> Some(canvas), st |-> st]
    ELSE LET box     == Box(rstk.default_width, rstk.default_height, depth_lut, i, j)
             closest == find_closest_refocus_image_by_lut_idx(refocus_stack, 4 * i, 4 * j)
         IN
         IF closest.err # ""
         THEN [err |-> closest.err, msg |-> "", val |-> None, st |-> st]
         ELSE LET got == get_pil_image("refocus", Some(closest.val[1].id),
                                       refocus_stack, parallax_stack, st)
              IN IF got.err # "" THEN got
                 ELSE GenAllFocusedFrom(refocus_stack, parallax_stack, k + 1,
                                        paste(canvas, crop(got.val[1], box), box), got.st)

_gen_pil_all_focused_image(refocus_stack, parallax_stack, st) ==
    IF _check_pil_module # ""
    THEN [err |-> _check_pil_module, msg |-> "", val |-> None, st |-> st]
    ELSE IF get_refocus_stack(refocus_stack).err # ""
    THEN [err |-> get_refocus_stack(refocus_stack).err, msg |-> "", val |-> None, st |-> st]
    ELSE LET r_images == refocus_stack[1].refocus_images IN
    IF 0 \notin DOMAIN r_images
    THEN [err |-> "KeyError", msg |-> "0", val |-> None, st |-> st]
    ELSE IF ImageData(r_images[0]).err # ""
    THEN [err |-> ImageData(r_images[0]).err, msg |-> "", val |-> None, st |-> st]
    ELSE LET init_data == ImageData(r_images[0]).data
             canvas    == PIL_open(init_data, OpenCount(st.opened, init_data) + 1)
         IN GenAllFocusedFrom(refocus_stack, parallax_stack, 0, canvas,
                              [st EXCEPT !.opened = Incr(@, init_data.pic)])

\* CachedOrOpened without the test of line 367: the image is opened again
\* and takes the place of the cached one
AlwaysOpened(group, id, img, st) ==
    LET data  == ImageData(img).data
        image == PIL_open(data, OpenCount(st.opened, data) + 1)
        dict  == [x \in DOMAIN st.cache[group] \cup {id} |->
                     IF x = id THEN image ELSE st.cache[group][x]]
    IN [err |-> "", msg |-> "", val |-> Some(image),
        st |-> [cache   |-> [st.cache EXCEPT ![group] = dict],
                opened  |-> Incr(st.opened, data.pic),
                decoded |-> Incr(st.decoded, CacheKey(group, ToString(id)))]]

\* lines 367-370: the cached image of key (group, id), opened on a miss
CachedOrOpened(group, id, img, st) ==
    IF id \in DOMAIN st.cache[group]
    THEN [err |-> "", msg |-> "", val |-> Some(st.cache[group][id]), st |-> st]
    ELSE IF ImageData(img).err # ""
    THEN [err |-> ImageData(img).err, msg |-> "", val |-> None, st |-> st]
    ELSE LET data  == ImageData(img).data
             image == PIL_open(data, OpenCount(st.opened, data) + 1)
             dict  == [x \in DOMAIN st.cache[group] \cup {id} |->
                          IF x = id THEN image ELSE st.cache[group][x]]
         IN [err |-> "", msg |-> "", val |-> Some(image),
             st |-> [cache   |-> [st.cache EXCEPT ![group] = dict],
                     opened  |-> Incr(st.opened, data.pic),
                     decoded |-> Incr(st.decoded, CacheKey(group, ToString(id)))]]

\* StackImage emptying the cache of the group when the id is not one of the
\* stack
StackImageFlushing(group, id, got, images, st) ==
    IF got.err # "" THEN [err |-> got.err, msg |-> "", val |-> None, st |-> st]
    ELSE IF id \notin DOMAIN images
    THEN [err |-> "KeyError", msg |-> ToString(id), val |-> None,
          st |-> [st EXCEPT !.cache[group] = <<>>]]
    ELSE CachedOrOpened(group, id, images[id], st)

\* lines 360-370 for group refocus or parallax and image_id not None
StackImage(group, id, got, images, st) ==
    IF got.err # "" THEN [err |-> got.err, msg |-> "", val |-> None, st |-> st]
    ELSE IF id \notin DOMAIN images
    THEN [err |-> "KeyError", msg |-> ToString(id), val |-> None, st |-> st]
    ELSE CachedOrOpened(group, id, images[id], st)

get_pil_image(group, image_id, refocus_stack, parallax_stack, st) ==
    IF _check_pil_module # ""
    THEN [err |-> _check_pil_module, msg |-> "", val |-> None, st |-> st]
    ELSE IF group \notin PilGroups
    THEN [err |-> "KeyError", msg |-> "Unknown PIL cache group", val |-> None, st |-> st]
    ELSE LET st1 == IF group \in DOMAIN st.cache THEN st
                    ELSE [st EXCEPT !.cache = (group :> <<>>) @@ @]
    IN
    IF group = "all_focused" /\ image_id = None
    THEN IF "_" \in DOMAIN st1.cache[group]
         THEN [err |-> "", msg |-> "", val |-> Some(st1.cache[group]["_"]), st |-> st1]
         ELSE LET gen == _gen_pil_all_focused_image(refocus_stack, parallax_stack, st1) IN
              IF gen.err # "" THEN gen
              ELSE [err |-> "", msg |-> "", val |-> gen.val,
                    st |-> [gen.st EXCEPT !.cache[group] = ("_" :> gen.val[1]),
                                          !.decoded = Incr(@, CacheKey(group, "_"))]]
    ELSE IF group = "refocus" /\ image_id # None
    THEN StackImage(group, image_id[1], get_refocus_stack(refocus_stack),
                    IF refocus_stack = None THEN <<>> ELSE refocus_stack[1].refocus_images, st1)
    ELSE IF group = "parallax" /\ image_id # None
    THEN StackImage(group, image_id[1], get_parallax_stack(parallax_stack),
                    IF parallax_stack = None THEN <<>> ELSE parallax_stack[1].parallax_images, st1)
    ELSE [err |-> "KeyError", msg |-> "Invalid image_id", val |-> None, st |-> st1]

(***************************************************************************)
(* Containers the reader is opened on.  A configuration cfg names the      *)
(* acceleration entries of the metadata tree and the numbers in them.      *)
(***************************************************************************)
\* largest number of refocus images of a stack
MaxImages == 3

\* largest width and height of a depth table
MaxLutDim == 2

\* largest number of parallax images of a stack
MaxParallax == 2

\* largest number of refocus images of a stack whose images are decoded
MaxCached == 2

\* largest default width and height of a stack whose composite is generated
MaxDefault == 5

\* largest number of images opened on one picture (a composite that fails
\* after its canvas was opened opens another canvas at every attempt)
MaxOpens == 3

RefocusRef(id) == "sha1-refocus-" \o ToString(id)

\* lambda of refocus image id (in quarters) in a stack of n images:
\* ascending, descending, repeating (equal lambdas), rotated
LambdaAt(pattern, n, id) ==
    CASE pattern = 0 -> 4 * id
      [] pattern = 1 -> 4 * (n - 1 - id)
      [] pattern = 2 -> 4 * (id % 2)
      [] OTHER       -> 4 * ((id + 1) % n)

\* cell k (from 1) of the raw depth table, in quarters: -0.25 .. 2.25,
\* neighbouring cells differ; seed 3 starts 0.5, 1.75, 0.25, 1.5, seed 2
\* starts -0.25, 1.0, 2.25, 0.75
LutCell(seed, k) == ((5 * k + 3 * seed) % 11) - 1

JpegData(pic, dims) == [kind |-> "jpeg", pic |-> pic, w |-> dims[1], h |-> dims[2]]

DisplayParameters(cfg) ==
    [displayDimensions |-> [value |-> [width |-> cfg.def[1], height |-> cfg.def[2]]]]

DepthLutMeta(cfg) ==
    [width |-> cfg.lut[1], height |-> cfg.lut[2], representation |-> "raw",
     imageRef |-> "sha1-depth-lut"]

RefocusMeta(cfg, id) ==
    ("lambda" :> LambdaAt(cfg.pattern, cfg.n, id)) @@ [width |-> cfg.img[1], height |-> cfg.img[2]]

AccelEntry(kind, cfg) ==
    CASE kind = "refocusImageArray" ->
           [type |-> "com.lytro.acceleration.refocusStack",
            vendorContent |->
              [imageArray |-> [i \in 1..cfg.n |->
                   RefocusMeta(cfg, i - 1) @@
                   [representation |-> "jpeg", imageRef |-> RefocusRef(i - 1)]],
               depthLut |-> DepthLutMeta(cfg),
               defaultLambda |-> 0,
               displayParameters |-> DisplayParameters(cfg)]]
      [] kind = "refocusH264" ->
           [type |-> "com.lytro.acceleration.refocusStack",
            vendorContent |->
              [blockOfImages |->
                   [representation |-> "h264", blockOfImagesRef |-> "sha1-refocus-h264",
                    metadataArray |-> [i \in 1..cfg.n |-> RefocusMeta(cfg, i - 1)]],
               depthLut |-> DepthLutMeta(cfg),
               defaultLambda |-> 0,
               displayParameters |-> DisplayParameters(cfg)]]
      [] kind = "edofParallax" ->
           [type |-> "com.lytro.acceleration.edofParallax",
            vendorContent |->
              [blockOfImages |->
                   [representation |-> "h264", blockOfImagesRef |-> "sha1-parallax-h264",
                    metadataArray |-> [i \in 1..Len(cfg.coords) |->
                        [coord |-> [x |-> cfg.coords[i][1], y |-> cfg.coords[i][2]],
                         width |-> cfg.img[1], height |-> cfg.img[2]]]],
               displayParameters |-> DisplayParameters(cfg)]]
      [] OTHER ->
           [type |-> "com.lytro.acceleration.depthMap",
            vendorContent |-> [depthMapRef |-> "sha1-depth-map"]]

\* the metadata tree of a well-formed container
MetaOf(cfg) ==
    [version |-> [major |-> 1, minor |-> 0],
     picture |->
       [frameArray |-> << [frame |-> [metadataRef |-> "sha1-frame-metadata",
                                      imageRef |-> "sha1-frame-image",
                                      privateMetadataRef |-> "sha1-frame-private"]] >>,
        accelerationArray |-> [k \in 1..Len(cfg.accel) |-> AccelEntry(cfg.accel[k], cfg)]]]

\* the ids of the frames of the refocus stream the splitter returns empty
EmptyFrames(cfg) == IF Has(cfg, "empty") THEN cfg.empty ELSE {}

\* its chunk table
ChunksOf(cfg) ==
    [r \in {RefocusRef(id) : id \in 0..(cfg.n - 1)} |->
        [data |-> JpegData("refocus-" \o ToString(CHOOSE id \in 0..(cfg.n - 1) : RefocusRef(id) = r), cfg.img)]]
    @@ ("sha1-frame-metadata" :> [data |-> [kind |-> "json", pic |-> "frame-metadata"]])
    @@ ("sha1-frame-image"    :> [data |-> [kind |-> "raw",  pic |-> "frame-image"]])
    @@ ("sha1-frame-private"  :> [data |-> [kind |-> "json", pic |-> "frame-private"]])
    @@ ("sha1-depth-lut" :>
          [data |-> [kind |-> "f32",
                     cells |-> [k \in 1..(cfg.lut[1] * cfg.lut[2]) |-> LutCell(cfg.seed, k)]]])
    @@ ("sha1-refocus-h264" :>
          [data |-> [kind |-> "h264",
                     frames |-> [i \in 1..cfg.n |->
                                   IF (i - 1) \in EmptyFrames(cfg) THEN ""
                                   ELSE JpegData("refocus-" \o ToString(i - 1), cfg.img)]]])
    @@ ("sha1-parallax-h264" :>
          [data |-> [kind |-> "h264",
                     frames |-> [i \in 1..Len(cfg.coords) |->
                                   JpegData("parallax-" \o ToString(i - 1), cfg.img)]]])

\* chunk table without the references of refs
WithoutChunks(ch, refs) == [r \in (DOMAIN ch) \ refs |-> ch[r]]

(***************************************************************************)
(* Damaged metadata trees: one key dropped, or one value replaced, at a    *)
(* path of the tree.  "@k" in a path is index k of an array.               *)
(***************************************************************************)
ArrayIndex == ("@1" :> 1) @@ ("@2" :> 2)

RECURSIVE EditAt(_, _, _)
EditAt(tree, path, edit) ==
    LET key == IF path[1] \in DOMAIN ArrayIndex THEN ArrayIndex[path[1]] ELSE path[1] IN
    IF key \notin DOMAIN tree THEN tree
    ELSE IF Len(path) > 1 THEN [tree EXCEPT ![key] = EditAt(@, Tail(path), edit)]
    ELSE IF edit.op = "drop" THEN Drop(tree, key)
    ELSE [tree EXCEPT ![key] = edit.val]

DropKey == [op |-> "drop"]

SetTo(v) == [op |-> "set", val |-> v]

\* paths inside the vendorContent of an acceleration entry
ContentEdits ==
    << [path |-> <<"imageArray">>, edit |-> DropKey],
       [path |-> <<"imageArray", "@1", "lambda">>, edit |-> DropKey],
       [path |-> <<"imageArray", "@2", "width">>, edit |-> DropKey],
       [path |-> <<"imageArray", "@1", "height">>, edit |-> DropKey],
       [path |-> <<"imageArray", "@2", "representation">>, edit |-> DropKey],
       [path |-> <<"imageArray", "@1", "imageRef">>, edit |-> DropKey],
       [path |-> <<"blockOfImages">>, edit |-> DropKey],
       [path |-> <<"blockOfImages", "representation">>, edit |-> DropKey],
       [path |-> <<"blockOfImages", "representation">>, edit |-> SetTo("png")],
       [path |-> <<"blockOfImages", "blockOfImagesRef">>, edit |-> DropKey],
       [path |-> <<"blockOfImages", "metadataArray">>, edit |-> DropKey],
       [path |-> <<"blockOfImages", "metadataArray">>, edit |-> SetTo(<<>>)],
       [path |-> <<"blockOfImages", "metadataArray", "@1", "lambda">>, edit |-> DropKey],
       [path |-> <<"blockOfImages", "metadataArray", "@2", "width">>, edit |-> DropKey],
       [path |-> <<"blockOfImages", "metadataArray", "@1", "height">>, edit |-> DropKey],
       [path |-> <<"blockOfImages", "metadataArray", "@1", "coord">>, edit |-> DropKey],
       [path |-> <<"blockOfImages", "metadataArray", "@2", "coord", "x">>, edit |-> DropKey],
       [path |-> <<"depthLut">>, edit |-> DropKey],
       [path |-> <<"depthLut", "width">>, edit |-> DropKey],
       [path |-> <<"depthLut", "height">>, edit |-> DropKey],
       [path |-> <<"depthLut", "representation">>, edit |-> DropKey],
       [path |-> <<"depthLut", "imageRef">>, edit |-> DropKey],
       [path |-> <<"defaultLambda">>, edit |-> DropKey],
       [path |-> <<"displayParameters">>, edit |-> DropKey],
       [path |-> <<"displayParameters", "displayDimensions">>, edit |-> DropKey],
       [path |-> <<"displayParameters", "displayDimensions", "value">>, edit |-> DropKey],
       [path |-> <<"displayParameters", "displayDimensions", "value", "width">>, edit |-> DropKey],
       [path |-> <<"displayParameters", "displayDimensions", "value", "height">>, edit |-> DropKey] >>

\* paths of the tree above the vendorContent of its entries; the first one
\* names no key of the tree and leaves it as it is
TreeEdits ==
    << [path |-> <<"nothing">>, edit |-> DropKey],
       [path |-> <<"picture">>, edit |-> DropKey],
       [path |-> <<"picture", "frameArray">>, edit |-> DropKey],
       [path |-> <<"picture", "frameArray">>, edit |-> SetTo(<<>>)],
       [path |-> <<"picture", "frameArray", "@1", "frame">>, edit |-> DropKey],
       [path |-> <<"picture", "frameArray", "@1", "frame", "metadataRef">>, edit |-> DropKey],
       [path |-> <<"picture", "frameArray", "@1", "frame", "imageRef">>, edit |-> DropKey],
       [path |-> <<"picture", "frameArray", "@1", "frame", "privateMetadataRef">>, edit |-> DropKey],
       [path |-> <<"picture", "accelerationArray">>, edit |-> DropKey],
       [path |-> <<"picture", "accelerationArray">>, edit |-> SetTo(<<>>)],
       [path |-> <<"picture", "accelerationArray", "@1", "type">>, edit |-> DropKey],
       [path |-> <<"picture", "accelerationArray", "@2", "type">>, edit |-> DropKey],
       [path |-> <<"picture", "accelerationArray", "@1", "vendorContent">>, edit |-> DropKey],
       [path |-> <<"picture", "accelerationArray", "@2", "vendorContent">>, edit |-> DropKey] >>

\* every damage of the model: a tree edit, or a content edit in the first or
\* in the second acceleration entry
Damages ==
    TreeEdits
    \o [k \in 1..Len(ContentEdits) |->
          [path |-> <<"picture", "accelerationArray", "@1", "vendorContent">> \o ContentEdits[k].path,
           edit |-> ContentEdits[k].edit]]
    \o [k \in 1..Len(ContentEdits) |->
          [path |-> <<"picture", "accelerationArray", "@2", "vendorContent">> \o ContentEdits[k].path,
           edit |-> ContentEdits[k].edit]]

Damaged(tree, d) == EditAt(tree, Damages[d].path, Damages[d].edit)

(***************************************************************************)
(* The reader as a state machine                                           *)
(***************************************************************************)
Outcome(op, args, err, msg, val, read) ==
    [op |-> op, args |-> args, err |-> err, msg |-> msg, val |-> val, read |-> read]

\* __init__, lines 95-100, on the container of cfg with damage d, the chunks
\* of absent missing from its table
InitReader(cfg, d, absent, scale) ==
    /\ meta = Damaged(MetaOf(cfg), d)
    /\ chunks = WithoutChunks(ChunksOf(cfg), absent)
    /\ coord_scale = scale
    /\ _frame = None
    /\ _refocus_stack = None
    /\ _parallax_stack = None
    /\ _pil_cache = <<>>
    /\ pil_opened = <<>>
    /\ decoded = <<>>
    /\ exported = <<>>
    /\ result = Outcome("__init__", <<>>, "", "", None, None)

Process ==
    LET r == process(meta, chunks, _frame, _refocus_stack, _parallax_stack) IN
    /\ _frame' = r.frame
    /\ _refocus_stack' = r.refocus_stack
    /\ _parallax_stack' = r.parallax_stack
    /\ result' = Outcome("process", <<>>, r.err, "", None, None)
    /\ UNCHANGED <<meta, chunks, coord_scale, _pil_cache, pil_opened, decoded, exported>>

Query(op, args, r) ==
    /\ result' = Outcome(op, args, r.err, "", r.val, None)
    /\ UNCHANGED <<meta, chunks, coord_scale, _frame, _refocus_stack, _parallax_stack,
                   _pil_cache, pil_opened, decoded, exported>>

GetFrame == Query("get_frame", <<>>, get_frame(_frame))

GetRefocusStack == Query("get_refocus_stack", <<>>, get_refocus_stack(_refocus_stack))

GetParallaxStack == Query("get_parallax_stack", <<>>, get_parallax_stack(_parallax_stack))

\* numeric arguments of the index lookup: below, inside and beyond a table
LutIndexArgs == {-5, 1000} \cup 0..MaxLutDim

\* fractions of the refocus lookup, in quarters: -0.25, 0, 0.5, 1.0, 1.25
RefocusFractions == {-1, 0, 2, 4, 5}

\* fractions of the parallax lookup, in halves: -0.5 .. 1.5
ParallaxFractions == (-1)..3

FindClosestRefocusImageByLutIdx ==
    \E ti \in LutIndexArgs, tj \in LutIndexArgs :
        LET r == find_closest_refocus_image_by_lut_idx(_refocus_stack, 4 * ti, 4 * tj) IN
        /\ result' = Outcome("find_closest_refocus_image_by_lut_idx", <<ti, tj>>,
                             r.err, "", r.val, r.read)
        /\ UNCHANGED <<meta, chunks, coord_scale, _frame, _refocus_stack, _parallax_stack,
                       _pil_cache, pil_opened, decoded, exported>>

FindClosestRefocusImage ==
    \E xq \in RefocusFractions, yq \in RefocusFractions :
        LET r == find_closest_refocus_image(_refocus_stack, xq, yq) IN
        /\ result' = Outcome("find_closest_refocus_image", <<xq, yq>>,
                             r.err, "", r.val, r.read)
        /\ UNCHANGED <<meta, chunks, coord_scale, _frame, _refocus_stack, _parallax_stack,
                       _pil_cache, pil_opened, decoded, exported>>

FindClosestParallaxImage ==
    \E xh \in ParallaxFractions, yh \in ParallaxFractions :
        Query("find_closest_parallax_image", <<xh, yh>>,
              find_closest_parallax_image(_parallax_stack, xh, yh, coord_scale))

GetDepthLutTxt == Query("get_depth_lut_txt", <<>>, get_depth_lut_txt(_refocus_stack))

ExportRefocusStack ==
    LET r == export_refocus_stack(_refocus_stack, exported) IN
    /\ exported' = r.files
    /\ result' = Outcome("export_refocus_stack", <<>>, r.err, "", None, None)
    /\ UNCHANGED <<meta, chunks, coord_scale, _frame, _refocus_stack, _parallax_stack,
                   _pil_cache, pil_opened, decoded>>

\* an export operation that has ended as r
Exported(op, r) ==
    /\ exported' = r.files
    /\ result' = Outcome(op, <<>>, r.err, "", None, None)
    /\ UNCHANGED <<meta, chunks, coord_scale, _frame, _refocus_stack, _parallax_stack,
                   _pil_cache, pil_opened, decoded>>

ExportFrame == Exported("export_frame", export_frame(_frame, exported))

ExportParallaxStack ==
    Exported("export_parallax_stack", export_parallax_stack(_parallax_stack, exported))

Export == Exported("export", export(_frame, _refocus_stack, _parallax_stack, exported))

\* no picture has MaxOpens images opened on it yet
CanOpen == \A pic \in DOMAIN pil_opened : pil_opened[pic] < MaxOpens

\* the groups and image ids get_pil_image is called with; None is no id
GroupArgs == PilGroups \cup {"depth_lut"}

ImageIdArgs == {None} \cup {Some(id) : id \in 0..MaxCached}

GetPilImage ==
    \E group \in GroupArgs, image_id \in ImageIdArgs :
        LET r == get_pil_image(group, image_id, _refocus_stack, _parallax_stack,
                               [cache |-> _pil_cache, opened |-> pil_opened,
                                decoded |-> decoded])
        IN
        /\ CanOpen
        /\ _pil_cache' = r.st.cache
        /\ pil_opened' = r.st.opened
        /\ decoded' = r.st.decoded
        /\ result' = Outcome("get_pil_image", <<group, image_id>>, r.err, r.msg, r.val, None)
        /\ UNCHANGED <<meta, chunks, coord_scale, _frame, _refocus_stack, _parallax_stack,
                       exported>>

(***************************************************************************)
(* Loading: every damaged tree on every shape of accelerationArray, with   *)
(* chunks missing from the table.                                          *)
(***************************************************************************)
AccelShapes ==
    { <<"refocusImageArray">>, <<"refocusH264">>, <<"edofParallax">>, <<"depthMap">>,
      <<"refocusImageArray", "edofParallax">>, <<"edofParallax", "refocusImageArray">>,
      <<"edofParallax", "edofParallax">> }

AbsentSets ==
    { {}, {"sha1-frame-metadata"}, {"sha1-frame-image"}, {"sha1-frame-private"},
      {RefocusRef(1)}, {"sha1-depth-lut"}, {"sha1-refocus-h264"}, {"sha1-parallax-h264"} }

LoadCfg(accel) ==
    [accel |-> accel, n |-> 2, pattern |-> 0, img |-> <<2, 2>>, lut |-> <<1, 1>>,
     seed |-> 0, def |-> <<2, 2>>, coords |-> << <<-10, 0>>, <<10, 0>> >>]

Init ==
    \E accel \in AccelShapes, d \in 1..Len(Damages), absent \in AbsentSets :
        InitReader(LoadCfg(accel), d, absent, 0)

Next == Process \/ GetFrame \/ GetRefocusStack \/ GetParallaxStack

Spec == Init /\ [][Next]_vars

(***************************************************************************)
(* Refocus lookup and depth table text: well-formed containers with a      *)
(* refocus stack of every size, lambda pattern and depth table.            *)
(***************************************************************************)
InitLookup ==
    \E n \in 1..MaxImages, pattern \in 0..3, w \in 1..MaxLutDim, h \in 1..MaxLutDim,
       seed \in {2, 3} :
        InitReader([accel |-> <<"refocusImageArray">>, n |-> n, pattern |-> pattern,
                    img |-> <<2, 2>>, lut |-> <<w, h>>, seed |-> seed, def |-> <<2, 2>>,
                    coords |-> <<>>],
                   1, {}, 0)

NextLookup == Process \/ FindClosestRefocusImage \/ FindClosestRefocusImageByLutIdx

SpecLookup == InitLookup /\ [][NextLookup]_vars

\* the containers of the refocus lookup, and ones that hold an H264
\* refocus stack and a parallax stack
InitText ==
    \E accel \in { <<"refocusImageArray">>, <<"refocusH264", "edofParallax">> },
       n \in 1..MaxImages, w \in 1..MaxLutDim, h \in 1..MaxLutDim, seed \in {2, 3} :
        InitReader([accel |-> accel, n |-> n, pattern |-> 0,
                    img |-> <<2, 2>>, lut |-> <<w, h>>, seed |-> seed, def |-> <<2, 2>>,
                    coords |-> << <<-10, 0>>, <<10, 0>> >>],
                   1, {}, 0)

NextText ==
    \/ Process
    \/ GetDepthLutTxt
    \/ ExportFrame
    \/ ExportRefocusStack
    \/ ExportParallaxStack
    \/ Export

SpecText == InitText /\ [][NextText]_vars

(***************************************************************************)
(* Decoded images: well-formed containers whose refocus images have the    *)
(* default dimensions of the stack or their own.                           *)
(***************************************************************************)
ImageDims == { <<6, 6>>, <<4, 12>> }

InitImage ==
    \E accel \in { <<"refocusImageArray", "edofParallax">>, <<"refocusH264">> },
       n \in 1..MaxCached, lut \in { <<1, 1>>, <<2, 2>>, <<3, 2>> }, img \in ImageDims :
        InitReader([accel |-> accel, n |-> n, pattern |-> 0, img |-> img,
                    lut |-> lut, seed |-> 0, def |-> <<6, 6>>,
                    coords |-> << <<0, 0>> >>],
                   1, {}, 0)

NextImage == Process \/ GetPilImage

SpecImage == InitImage /\ [][NextImage]_vars

(***************************************************************************)
(* Parallax lookup: well-formed containers with a parallax stack of every  *)
(* sequence of viewpoints, at both scales of the coordinates.              *)
(***************************************************************************)
Viewpoints == { <<-10, 0>>, <<10, 0>>, <<0, 0>>, <<1, 3>>, <<3, -1>> }

RECURSIVE SeqsUpTo(_, _)
SeqsUpTo(S, n) ==
    IF n = 0 THEN { <<>> }
    ELSE SeqsUpTo(S, n - 1) \cup
         { Append(q, x) : q \in {p \in SeqsUpTo(S, n - 1) : Len(p) = n - 1}, x \in S }

InitParallax ==
    \E coords \in SeqsUpTo(Viewpoints, MaxParallax) \ { <<>> }, scale \in {0, 30} :
        InitReader([accel |-> <<"edofParallax">>, n |-> 1, pattern |-> 0, img |-> <<2, 2>>,
                    lut |-> <<1, 1>>, seed |-> 0, def |-> <<2, 2>>, coords |-> coords],
                   1, {}, scale)

NextParallax == Process \/ FindClosestParallaxImage \/ GetParallaxStack

SpecParallax == InitParallax /\ [][NextParallax]_vars

(***************************************************************************)
(* The all-focused composite: well-formed containers with every default    *)
(* width and height, depth tables that divide them and that do not, and    *)
(* refocus images of two pixel sizes.                                      *)
(***************************************************************************)
\* pil_all_focused_image.save(output, export_format): the encoded raster
PIL_save(image, export_format) ==
    [kind |-> export_format, pic |-> image.pic, w |-> image.size[1], h |-> image.size[2],
     pastes |-> image.pastes]

\* export_all_focused(export_format), lines 286-291
export_all_focused(export_format, refocus_stack, parallax_stack, st, files) ==
    LET got == get_pil_image("all_focused", None, refocus_stack, parallax_stack, st) IN
    IF got.err # "" THEN [err |-> got.err, st |-> got.st, files |-> files]
    ELSE [err |-> "", st |-> got.st,
          files |-> export_write(files, "all_focused", export_format,
                                 PIL_save(got.val[1], export_format))]

ExportAllFocused ==
    LET r == export_all_focused("jpeg", _refocus_stack, _parallax_stack,
                                [cache |-> _pil_cache, opened |-> pil_opened,
                                 decoded |-> decoded], exported)
    IN
    /\ CanOpen
    /\ _pil_cache' = r.st.cache
    /\ pil_opened' = r.st.opened
    /\ decoded' = r.st.decoded
    /\ exported' = r.files
    /\ result' = Outcome("export_all_focused", <<"jpeg">>, r.err, "", None, None)
    /\ UNCHANGED <<meta, chunks, coord_scale, _frame, _refocus_stack, _parallax_stack>>

\* JPEG-based stacks, and H264-encoded ones whose stream has no empty
\* frame or one
CompositeStacks ==
    { [accel |-> <<"refocusImageArray">>, empty |-> {}],
      [accel |-> <<"refocusH264">>, empty |-> {}],
      [accel |-> <<"refocusH264">>, empty |-> {0}],
      [accel |-> <<"refocusH264">>, empty |-> {1}] }

InitComposite ==
    \E W \in 0..MaxDefault, H \in 0..MaxDefault, lw \in 1..MaxLutDim, lh \in 1..MaxLutDim,
       img \in { <<4, 4>>, <<5, 3>> }, stack \in CompositeStacks :
        InitReader([accel |-> stack.accel, n |-> 2, pattern |-> 0, img |-> img,
                    lut |-> <<lw, lh>>, seed |-> 3, def |-> <<W, H>>, coords |-> <<>>,
                    empty |-> stack.empty],
                   1, {}, 0)

NextComposite == Process \/ ExportAllFocused

SpecComposite == InitComposite /\ [][NextComposite]_vars

(***************************************************************************)
(* Properties of loading (Spec)                                            *)
(***************************************************************************)
\* frameArray[0].frame of the tree names the three references
NamesFrameRefs ==
    /\ Has(meta, "picture")
    /\ Has(meta.picture, "frameArray")
    /\ Len(meta.picture.frameArray) > 0
    /\ Has(meta.picture.frameArray[1], "frame")
    /\ HasAll(meta.picture.frameArray[1].frame,
              {"metadataRef", "imageRef", "privateMetadataRef"})

\* the Frame of the chunks stored under the three references
FrameOfChunks ==
    LET frame_data == meta.picture.frameArray[1].frame IN
    [metadata |-> chunks[frame_data.metadataRef],
     image |-> chunks[frame_data.imageRef],
     private_metadata |-> chunks[frame_data.privateMetadataRef]]

FrameRefsInTable ==
    LET frame_data == meta.picture.frameArray[1].frame IN
    {frame_data.metadataRef, frame_data.imageRef, frame_data.privateMetadataRef}
        \subseteq DOMAIN chunks

\* C1: when frameArray[0].frame names the three references, process() leaves
\* the Frame of exactly the three chunks if all three references are keys of
\* the chunk table and no Frame if one of them is not; get_frame() then
\* returns that Frame, or fails with LfpPictureError when there is none.
C1_FrameIffThreeChunks ==
    NamesFrameRefs =>
        /\ result.op = "process" =>
              IF FrameRefsInTable THEN _frame = Some(FrameOfChunks) ELSE _frame = None
        /\ result.op = "get_frame" =>
              IF FrameRefsInTable /\ _frame # None
              THEN result.err = "" /\ result.val = Some(FrameOfChunks)
              ELSE result.err = "LfpPictureError" /\ result.val = None

\* get_frame() has returned the Frame of the three chunks
C1_Witness ==
    /\ NamesFrameRefs
    /\ FrameRefsInTable
    /\ result.op = "get_frame"
    /\ result.err = ""
    /\ result.val = Some(FrameOfChunks)

\* the tree has a picture whose frameArray is empty
EmptyFrameArray ==
    /\ Has(meta, "picture")
    /\ Has(meta.picture, "frameArray")
    /\ Len(meta.picture.frameArray) = 0

\* the tree is whole up to an edofParallax entry whose blockOfImages has a
\* representation other than h264
NonH264Parallax ==
    /\ NamesFrameRefs
    /\ Has(meta.picture, "accelerationArray")
    /\ \E k \in 1..Len(meta.picture.accelerationArray) :
          LET accel_data == meta.picture.accelerationArray[k] IN
          /\ HasAll(accel_data, {"type", "vendorContent"})
          /\ accel_data.type = "com.lytro.acceleration.edofParallax"
          /\ Has(accel_data.vendorContent, "blockOfImages")
          /\ Has(accel_data.vendorContent.blockOfImages, "representation")
          /\ accel_data.vendorContent.blockOfImages.representation # "h264"

\* C7: process() ends normally or with LfpPictureError and no other error
\* kind, and it fails with LfpPictureError on a tree with an empty
\* frameArray and on a tree with an edofParallax entry whose representation
\* is not h264.
C7_OnlyLfpPictureError ==
    result.op = "process" =>
        /\ result.err \in {"", "LfpPictureError"}
        /\ (EmptyFrameArray \/ NonH264Parallax) => result.err = "LfpPictureError"

(***************************************************************************)
(* Properties of the refocus lookup (SpecLookup)                           *)
(***************************************************************************)
\* a lookup of either kind has returned on a reader whose stack is loaded
LookedUp ==
    /\ result.op \in {"find_closest_refocus_image_by_lut_idx", "find_closest_refocus_image"}
    /\ _refocus_stack # None

\* the value of the cell the lookup read
TargetRead ==
    _refocus_stack[1].depth_lut.table[result.read[1][1]][result.read[1][2]]

\* C2: a lookup on a non-empty refocus stack returns an image of the stack
\* whose |lambda - target| is minimal over the images of the stack, target
\* being the depth table value of the cell read, and among the images that
\* attain the minimum the one with the lowest id.
C2_ClosestLowestId ==
    LookedUp =>
        /\ result.err = ""
        /\ result.val # None
        /\ LET images == _refocus_stack[1].refocus_images
               img    == result.val[1]
           IN
           /\ img.id \in DOMAIN images
           /\ images[img.id] = img
           /\ \A id \in DOMAIN images :
                 LET d    == img.lambda_ - TargetRead
                     dist == IF d < 0 THEN -d ELSE d
                     o    == images[id].lambda_ - TargetRead
                     odist == IF o < 0 THEN -o ELSE o
                 IN \/ dist < odist
                    \/ dist = odist /\ img.id <= id

\* lambdas 0.0, 1.0, 2.0 and target 0.5: ids 0 and 1 attain the minimum and
\* id 0 has been returned
C2_Witness ==
    /\ LookedUp
    /\ result.err = ""
    /\ LET images == _refocus_stack[1].refocus_images IN
       /\ DOMAIN images = 0..2
       /\ \A id \in 0..2 : images[id].lambda_ = 4 * id
    /\ TargetRead = 2
    /\ result.val[1].id = 0

\* the index of a table of size entries that t = num/den (den > 0) is
\* clamped to: 0 below the table, size-1 beyond it, else the whole part of t
ClampedTo(num, den, size) ==
    IF num < 0 THEN 0
    ELSE IF num >= den * size THEN size - 1
    ELSE CHOOSE c \in 0..(size - 1) : den * c <= num /\ num < den * (c + 1)

\* C3: for every pair of numeric arguments and every fractional pair, the
\* lookup reads the depth table at the clamped indices 0 <= ti <= width-1,
\* 0 <= tj <= height-1, which are indices of the table built as width
\* columns of height rows, and does not fail.
C3_IndexClamped ==
    LookedUp =>
        LET depth_lut == _refocus_stack[1].depth_lut
            byIdx == result.op = "find_closest_refocus_image_by_lut_idx"
            ti == IF byIdx THEN ClampedTo(result.args[1], 1, depth_lut.width)
                  ELSE ClampedTo(result.args[1] * depth_lut.width, 4, depth_lut.width)
            tj == IF byIdx THEN ClampedTo(result.args[2], 1, depth_lut.height)
                  ELSE ClampedTo(result.args[2] * depth_lut.height, 4, depth_lut.height)
        IN
        /\ result.err = ""
        /\ result.read = Some(<<ti, tj>>)
        /\ DOMAIN depth_lut.table = 0..(depth_lut.width - 1)
        /\ ti \in DOMAIN depth_lut.table
        /\ DOMAIN depth_lut.table[ti] = 0..(depth_lut.height - 1)
        /\ tj \in DOMAIN depth_lut.table[ti]

\* ti = -5, tj = 1000 has read the first column and the last row of a table
\* with more than one column and row
C3_Witness ==
    /\ LookedUp
    /\ result.op = "find_closest_refocus_image_by_lut_idx"
    /\ result.args = <<-5, 1000>>
    /\ _refocus_stack[1].depth_lut.width > 1
    /\ _refocus_stack[1].depth_lut.height > 1
    /\ result.read = Some(<<0, _refocus_stack[1].depth_lut.height - 1>>)
    /\ result.err = ""

(***************************************************************************)
(* Properties of the depth table text (SpecText)                           *)
(***************************************************************************)
\* the floats of the raw depth table chunk, in stored order
RawCells == _refocus_stack[1].depth_lut.chunk.data.cells

\* lines lines of perLine numbers each, taken from cells in their order:
\* every number is followed by a space, every line by CR-LF
TextOfCells(cells, lines, perLine) ==
    LET RECURSIVE Line(_, _)
        Line(i, j) == IF j >= perLine THEN "\r\n"
                      ELSE Format9f(cells[i * perLine + j + 1]) \o " " \o Line(i, j + 1)
        RECURSIVE Lines(_)
        Lines(i) == IF i >= lines THEN "" ELSE Line(i, 0) \o Lines(i + 1)
    IN Lines(0)

\* C8: for a depth table with width = height = n, get_depth_lut_txt returns
\* n lines ending in CR-LF of n numbers each, the j-th number of line i being
\* the float at offset 4*(i*n + j) of the raw chunk: the text is the raw
\* buffer in its stored order.
C8_SquareTextInStoredOrder ==
    (/\ result.op = "get_depth_lut_txt"
     /\ _refocus_stack # None
     /\ _refocus_stack[1].depth_lut.width = _refocus_stack[1].depth_lut.height)
    => /\ result.err = ""
       /\ result.val = Some(TextOfCells(RawCells, _refocus_stack[1].depth_lut.width,
                                        _refocus_stack[1].depth_lut.width))

\* the text of a 2x2 table whose four cells differ has been returned
C8_Witness ==
    /\ result.op = "get_depth_lut_txt"
    /\ _refocus_stack # None
    /\ _refocus_stack[1].depth_lut.width = 2
    /\ _refocus_stack[1].depth_lut.height = 2
    /\ RawCells[2] # RawCells[3]
    /\ result.err = ""
    /\ result.val = Some(TextOfCells(RawCells, 2, 2))

\* C10: for a depth table of any width >= 1 and height >= 1,
\* get_depth_lut_txt and export_refocus_stack complete without an index
\* error, and the text holds width lines of height numbers each.
C10_AnyShapeRenders ==
    (/\ result.op \in {"get_depth_lut_txt", "export_refocus_stack"}
     /\ _refocus_stack # None)
    => /\ result.err = ""
       /\ result.op = "get_depth_lut_txt" =>
             Len(result.val[1]) = _refocus_stack[1].depth_lut.width
                                    * (10 * _refocus_stack[1].depth_lut.height + 2)

(***************************************************************************)
(* Properties of the parallax lookup (SpecParallax)                        *)
(***************************************************************************)
\* C4: on a non-empty parallax stack, find_closest_parallax_image returns
\* an image of the stack, never an absent result, and no image of the stack
\* is closer (in squared Euclidean distance) to the viewpoint
\* ((x_f-0.5)*viewpoint_width, (y_f-0.5)*viewpoint_height).
C4_ClosestParallaxNeverAbsent ==
    (result.op = "find_closest_parallax_image" /\ _parallax_stack # None) =>
        /\ result.err = ""
        /\ result.val # None
        /\ LET pstk   == _parallax_stack[1]
               images == pstk.parallax_images
               vx2    == (result.args[1] - 1) * pstk.viewpoint_width
               vy2    == (result.args[2] - 1) * pstk.viewpoint_height
               \* four times the squared distance, coordinates doubled
               dist4(c) == (2 * c.x - vx2) * (2 * c.x - vx2)
                         + (2 * c.y - vy2) * (2 * c.y - vy2)
           IN
           /\ \E id \in DOMAIN images : images[id] = result.val[1]
           /\ \A id \in DOMAIN images :
                 dist4(result.val[1].coord) <= dist4(images[id].coord)

(***************************************************************************)
(* Properties of the decoded images (SpecImage)                            *)
(***************************************************************************)
\* the cache key of the arguments of a get_pil_image call
KeyOfArgs(args) == IF args[2] = None THEN "_" ELSE args[2][1]

\* every entry of the cache before the step is the same entry after it
EntriesKept ==
    \A group \in DOMAIN _pil_cache :
        /\ group \in DOMAIN _pil_cache'
        /\ \A id \in DOMAIN _pil_cache[group] :
              /\ id \in DOMAIN _pil_cache'[group]
              /\ _pil_cache'[group][id] = _pil_cache[group][id]

\* a successful get_pil_image call returns the entry of its (group, id)
\* key, and every key is filled at most once
HandleOfEntry ==
    /\ \A key \in DOMAIN decoded' : decoded'[key] <= 1
    /\ (result'.op = "get_pil_image" /\ result'.err = "") =>
          LET group == result'.args[1]
              id    == KeyOfArgs(result'.args)
          IN /\ group \in DOMAIN _pil_cache'
             /\ id \in DOMAIN _pil_cache'[group]
             /\ result'.val = Some(_pil_cache'[group][id])

\* the images the composite in the cache was opened from: its canvas
CanvasOpens(cache, pic) ==
    IF /\ "all_focused" \in DOMAIN cache
       /\ "_" \in DOMAIN cache["all_focused"]
       /\ cache["all_focused"]["_"].pic = pic
    THEN 1 ELSE 0

\* C5 as stated: a cache entry once set is never replaced or removed, a
\* successful get_pil_image call returns the entry of its (group, id) key,
\* the composite is generated at most once, and each refocus or parallax
\* image is decoded at most once.
C5_EachImageDecodedOnce ==
    [][ /\ EntriesKept
        /\ HandleOfEntry
        /\ \A pic \in DOMAIN pil_opened' : pil_opened'[pic] <= 1
      ]_vars

\* C5, amended: a cache entry once set is never replaced or removed; a
\* successful get_pil_image call returns the entry of its (group, id) key,
\* the one that was there before the call if there was one; every key is
\* filled at most once; and each refocus or parallax image is decoded at
\* most once for its entry, the image the canvas of the composite is
\* opened from (refocus image 0) once more for that canvas.
C5_CachedHandleKept ==
    [][ /\ EntriesKept
        /\ HandleOfEntry
        /\ \A pic \in DOMAIN pil_opened' :
              pil_opened'[pic] <= 1 + CanvasOpens(_pil_cache', pic)
      ]_vars

\* refocus image 0 was decoded into its entry, the composite was generated
\* (its canvas is the second image opened on picture 0), and a later call
\* for refocus image 0 has returned the first handle
C5_Witness ==
    /\ result.op = "get_pil_image"
    /\ result.args = <<"refocus", Some(0)>>
    /\ result.err = ""
    /\ result.val[1].oid = <<"refocus-0", 1>>
    /\ "all_focused" \in DOMAIN _pil_cache
    /\ "_" \in DOMAIN _pil_cache["all_focused"]
    /\ _pil_cache["all_focused"]["_"].oid = <<"refocus-0", 2>>
    /\ decoded[CacheKey("refocus", "0")] = 1

\* C6: when the width and height of the depth table divide the default
\* width and height of the stack, the composite get_pil_image('all_focused')
\* returns has the pixel size default_width x default_height.
C6_CompositeHasDefaultSize ==
    (/\ result.op = "get_pil_image"
     /\ result.args = <<"all_focused", None>>
     /\ result.err = ""
     /\ _refocus_stack[1].default_width % _refocus_stack[1].depth_lut.width = 0
     /\ _refocus_stack[1].default_height % _refocus_stack[1].depth_lut.height = 0)
    => result.val[1].size = <<_refocus_stack[1].default_width,
                              _refocus_stack[1].default_height>>

\* the images of the stack a group names, if it is loaded
LoadedIds(group) ==
    IF group = "refocus" /\ _refocus_stack # None
    THEN Some(DOMAIN _refocus_stack[1].refocus_images)
    ELSE IF group = "parallax" /\ _parallax_stack # None
    THEN Some(DOMAIN _parallax_stack[1].parallax_images)
    ELSE None

\* the message a bad argument combination is rejected with, "" for a good one
Rejection(args) ==
    IF args[1] \notin {"refocus", "parallax", "all_focused"} THEN "Unknown PIL cache group"
    ELSE IF args[1] = "all_focused" /\ args[2] # None THEN "Invalid image_id"
    ELSE IF args[1] # "all_focused" /\ args[2] = None THEN "Invalid image_id"
    ELSE ""

\* id args[2] is asked of a loaded stack that has no such image
NotAnIdOfStack(args) ==
    /\ Rejection(args) = ""
    /\ args[1] # "all_focused"
    /\ LoadedIds(args[1]) # None
    /\ args[2][1] \notin LoadedIds(args[1])[1]

\* C9: get_pil_image fails with KeyError for a group outside refocus,
\* parallax, all_focused ('Unknown PIL cache group'), for refocus or
\* parallax without an image_id and all_focused with one ('Invalid
\* image_id'), and for an image_id that is not an id of the requested
\* stack; such a call opens no image, fills no cache key, and leaves every
\* cached entry as it was.
C9_BadArgumentsRejected ==
    [][ (result'.op = "get_pil_image"
         /\ (Rejection(result'.args) # "" \/ NotAnIdOfStack(result'.args))) =>
            /\ result'.err = "KeyError"
            /\ Rejection(result'.args) # "" => result'.msg = Rejection(result'.args)
            /\ result'.val = None
            /\ decoded' = decoded
            /\ pil_opened' = pil_opened
            /\ EntriesKept
            /\ \A group \in DOMAIN _pil_cache' :
                  IF group \in DOMAIN _pil_cache
                  THEN _pil_cache'[group] = _pil_cache[group]
                  ELSE _pil_cache'[group] = <<>>
      ]_vars

\* an id beyond the refocus stack has been rejected while images of the
\* stack are cached
C9_Witness ==
    /\ result.op = "get_pil_image"
    /\ result.args[1] = "refocus"
    /\ NotAnIdOfStack(result.args)
    /\ result.err = "KeyError"
    /\ "refocus" \in DOMAIN _pil_cache
    /\ DOMAIN _pil_cache["refocus"] # {}

(***************************************************************************)
(* Properties of the all-focused composite (SpecComposite)                 *)
(***************************************************************************)
\* the composite has been generated and exported
CompositeExported ==
    /\ result.op = "export_all_focused"
    /\ result.err = ""

\* the composite of the cache
Composite == _pil_cache["all_focused"]["_"]

\* pixel (x, y) is inside box (left, upper, right, lower)
InBox(x, y, box) == box[1] <= x /\ x < box[3] /\ box[2] <= y /\ y < box[4]

\* the pastes of the composite that wrote pixel (x, y)
WritesOf(x, y) == {k \in 1..Len(Composite.pastes) : InBox(x, y, Composite.pastes[k].box)}

\* the boxes of the lw x lh cells partition [0,W) x [0,H): one paste per
\* cell, every box inside the rectangle, every pixel of it in one box
BoxesPartitionDefault ==
    LET rstk == _refocus_stack[1]
        W == rstk.default_width
        H == rstk.default_height
    IN
    /\ Len(Composite.pastes) = rstk.depth_lut.width * rstk.depth_lut.height
    /\ \A k \in 1..Len(Composite.pastes) :
          LET box == Composite.pastes[k].box IN
          /\ 0 <= box[1] /\ box[1] <= box[3] /\ box[3] <= W
          /\ 0 <= box[2] /\ box[2] <= box[4] /\ box[4] <= H
    /\ \A x \in 0..(W - 1), y \in 0..(H - 1) : Cardinality(WritesOf(x, y)) = 1

\* the paste of cell (i, j), the k-th of the traversal, is cut from the
\* refocus image whose lambda is closest to the value of the cell
BoxesFromClosestImage ==
    LET rstk == _refocus_stack[1]
        lh   == rstk.depth_lut.height
    IN
    \A k \in 1..Len(Composite.pastes) :
        LET i      == (k - 1) \div lh
            j      == (k - 1) % lh
            target == rstk.depth_lut.table[i][j]
            dist(id) == IF rstk.refocus_images[id].lambda_ < target
                        THEN target - rstk.refocus_images[id].lambda_
                        ELSE rstk.refocus_images[id].lambda_ - target
        IN \E id \in DOMAIN rstk.refocus_images :
             /\ \A o \in DOMAIN rstk.refocus_images : dist(id) <= dist(o)
             /\ ImageData(rstk.refocus_images[id]).err = ""
             /\ Composite.pastes[k].pic = ImageData(rstk.refocus_images[id]).data.pic

\* every pixel of the canvas was written by exactly one paste
CanvasWrittenOnce ==
    \A x \in 0..(Composite.size[1] - 1), y \in 0..(Composite.size[2] - 1) :
        Cardinality(WritesOf(x, y)) = 1

\* C11: the boxes of the depth table cells are pairwise disjoint and cover
\* exactly [0,W) x [0,H) for the default width W and height H of the stack,
\* also when the table does not divide them; every pixel of the canvas is
\* written exactly once; and each box holds the pixels of the refocus image
\* closest in lambda to the value of its cell.
C11_BoxesPartitionCanvas ==
    CompositeExported =>
        /\ BoxesPartitionDefault
        /\ BoxesFromClosestImage
        /\ CanvasWrittenOnce

(***************************************************************************)
(* Properties of a failed process() (Spec)                                 *)
(***************************************************************************)
\* the walk of process() gets as far as the entries of accelerationArray
WalkReachesEntries == NamesFrameRefs /\ Has(meta.picture, "accelerationArray")

Entries == meta.picture.accelerationArray

RefocusType == "com.lytro.acceleration.refocusStack"

ParallaxType == "com.lytro.acceleration.edofParallax"

\* the type of entry k, "" when it has none
TypeOf(k) == IF Has(Entries[k], "type") THEN Entries[k].type ELSE ""

\* the chunks a well-formed entry of a kind refers to
NeededChunks(kind) ==
    CASE kind = "refocusImageArray" -> {RefocusRef(0), RefocusRef(1), "sha1-depth-lut"}
      [] kind = "refocusH264"       -> {"sha1-refocus-h264", "sha1-depth-lut"}
      [] OTHER                      -> {"sha1-parallax-h264"}

\* entry k is a well-formed refocus or parallax entry whose chunks are all
\* in the table
Intact(k) ==
    \E kind \in {"refocusImageArray", "refocusH264", "edofParallax"} :
        /\ Entries[k] = AccelEntry(kind, LoadCfg(<<>>))
        /\ NeededChunks(kind) \subseteq DOMAIN chunks

\* process() has failed while handling an entry of accelerationArray
FailedInEntry ==
    /\ result.op = "process"
    /\ result.err # ""
    /\ WalkReachesEntries

\* the entry a failed process() stopped at, 0 when the tree does not tell
FailingEntry ==
    IF Len(Entries) = 1 THEN 1
    ELSE IF Len(Entries) = 2 /\ Intact(1) THEN 2
    ELSE IF Len(Entries) = 2 /\ Intact(2) THEN 1
    ELSE 0

\* the field process() builds from an entry of a type, and its accessor
StackOf(type) == IF type = RefocusType THEN _refocus_stack ELSE _parallax_stack

AccessorOf(type) ==
    IF type = RefocusType THEN get_refocus_stack(_refocus_stack)
    ELSE get_parallax_stack(_parallax_stack)

\* C12: when process() fails while handling an acceleration entry, the
\* Frame populated earlier in the call and every stack built from an
\* earlier entry are populated and returned by their accessors, and the
\* stack of the failing entry (one no earlier entry built) is absent and
\* its accessor fails with LfpPictureError; an accessor returns its
\* structure when it is populated (a stack: with images) and fails with
\* LfpPictureError when it is not, as all three do before process() has
\* run.
C12_FailureKeepsEarlierStructures ==
    /\ FailedInEntry =>
          /\ FrameRefsInTable =>
                _frame = Some(FrameOfChunks) /\ get_frame(_frame).val = Some(FrameOfChunks)
          /\ \A k \in 1..Len(Entries) :
                k < FailingEntry =>
                    /\ StackOf(TypeOf(k)) # None
                    /\ AccessorOf(TypeOf(k)).err = ""
                    /\ AccessorOf(TypeOf(k)).val = StackOf(TypeOf(k))
          /\ (/\ FailingEntry # 0
              /\ TypeOf(FailingEntry) \in {RefocusType, ParallaxType}
              /\ \A k \in 1..(FailingEntry - 1) : TypeOf(k) # TypeOf(FailingEntry)) =>
                    /\ StackOf(TypeOf(FailingEntry)) = None
                    /\ AccessorOf(TypeOf(FailingEntry)).err = "LfpPictureError"
    /\ result.op = "__init__" =>
          _frame = None /\ _refocus_stack = None /\ _parallax_stack = None
    /\ result.op = "get_frame" =>
          IF _frame # None THEN result.err = "" /\ result.val = _frame
          ELSE result.err = "LfpPictureError"
    /\ result.op = "get_refocus_stack" =>
          IF _refocus_stack # None /\ DOMAIN _refocus_stack[1].refocus_images # {}
          THEN result.err = "" /\ result.val = _refocus_stack
          ELSE result.err = "LfpPictureError"
    /\ result.op = "get_parallax_stack" =>
          IF _parallax_stack # None /\ DOMAIN _parallax_stack[1].parallax_images # {}
          THEN result.err = "" /\ result.val = _parallax_stack
          ELSE result.err = "LfpPictureError"

\* process() fails in the second entry, an edofParallax one, after a
\* refocus entry: the Frame and the refocus stack are populated, the
\* parallax stack is absent, and get_refocus_stack() has returned the stack
C12_Witness ==
    /\ WalkReachesEntries
    /\ Len(Entries) = 2
    /\ Intact(1)
    /\ TypeOf(1) = RefocusType
    /\ TypeOf(2) = ParallaxType
    /\ process(meta, chunks, _frame, _refocus_stack, _parallax_stack).err # ""
    /\ _frame # None
    /\ _parallax_stack = None
    /\ result.op = "get_refocus_stack"
    /\ result.err = ""
    /\ result.val = _refocus_stack
    /\ _refocus_stack # None


============================================================================
